---- MODULE Spec2Model ----
(***************************************************************************)
(* Model of the video checkpoint monitor (scripts/monitor_video_metrics.py *)
(* and scripts/config_profiles.py) and of the title generator              *)
(* (scripts/generate_ab_titles.py).                                        *)
(*                                                                         *)
(* Units.  Real-valued quantities are carried as integers in tenths:       *)
(*   hours (hours_since, hours_online, now, published_at) in tenths of an  *)
(*   hour, ctr in tenths of a percent.  Retention, impressions, views and  *)
(*   vph are whole numbers.  A threshold of the configuration given in     *)
(*   hours is multiplied by 10 where it is compared with a time.           *)
(* Python's None is the value None below; Python truthiness of a number    *)
(* ("if x") is Truthy(x): neither None nor zero.                           *)
(***************************************************************************)
EXTENDS Integers, Sequences, FiniteSets, TLC

VARIABLES
    now,        \* wall clock at which the running pass took datetime.now()
    passes,     \* number of monitor passes started so far
    store,      \* table video_monitoring: one row per video
    prefs,      \* table user_preferences: rows inserted by save_learning_data
    proc,       \* the monitor invocation: position in its loop over videos.data
    effects,    \* per (video, checkpoint): how often each side effect happened
    call        \* last call of a pure function: its arguments and its result

vars == <<now, passes, store, prefs, proc, effects, call>>

\* Python None (monitor_video_metrics.py: ctr = None, retention = None, ...)
None == -1

\* "if x" on an optional number: None and 0 are both false
Truthy(x) == x # None /\ x # 0

-----------------------------------------------------------------------------
(* config_profiles.py *)

ChannelProfile == {"tech", "growth", "unknown"}

PROFILE_CONFIG ==
    [ tech |->
        [ min_hours_before_alert       |-> 12,
          archive_after_hours          |-> 168,
          healthy_views_velocity       |-> 5,
          stagnant_views_velocity      |-> 2,
          min_ctr_threshold            |-> 35,
          min_retention_threshold      |-> 35,
          evaluation_checkpoints       |-> <<24, 48, 168>>,
          impressions_low_threshold    |-> 500,
          impressions_normal_threshold |-> 2000 ],
      growth |->
        [ min_hours_before_alert       |-> 3,
          archive_after_hours          |-> 24,
          healthy_views_velocity       |-> 20,
          stagnant_views_velocity      |-> 10,
          min_ctr_threshold            |-> 40,
          min_retention_threshold      |-> 40,
          evaluation_checkpoints       |-> <<3, 6, 12, 24>>,
          impressions_low_threshold    |-> 1000,
          impressions_normal_threshold |-> 5000 ] ]

\* PROFILE_CONFIG.get(profile, PROFILE_CONFIG[PROFILE_TECH])
get_profile_config(profile) ==
    IF profile \in DOMAIN PROFILE_CONFIG
    THEN PROFILE_CONFIG[profile]
    ELSE PROFILE_CONFIG["tech"]

-----------------------------------------------------------------------------
(* diagnose_root_cause *)

impressions_level_of(impressions, config) ==
    IF impressions = None THEN "Desconocido"
    ELSE IF impressions < config.impressions_low_threshold THEN "Baja"
    ELSE IF impressions < config.impressions_normal_threshold THEN "Normal"
    ELSE "Alta"

\* CASO A: "if impressions and impressions < imp_low"
CasoFantasma(impressions, config) ==
    Truthy(impressions) /\ impressions < config.impressions_low_threshold

\* CASO B: "if impressions and impressions >= imp_normal and ctr is not None
\*          and ctr < min_ctr"
CasoInvisible(impressions, ctr, config) ==
    /\ Truthy(impressions)
    /\ impressions >= config.impressions_normal_threshold
    /\ ctr # None
    /\ ctr < config.min_ctr_threshold

\* CASO C: "if ctr is not None and ctr >= min_ctr and retention is not None
\*          and retention < min_retention"
CasoClickbait(ctr, retention, config) ==
    /\ ctr # None
    /\ ctr >= config.min_ctr_threshold
    /\ retention # None
    /\ retention < config.min_retention_threshold

\* CASO D: "if ctr is not None and ctr >= min_ctr and (retention is None or
\*          retention >= min_retention)"
CasoSuccess(ctr, retention, config) ==
    /\ ctr # None
    /\ ctr >= config.min_ctr_threshold
    /\ (retention = None \/ retention >= config.min_retention_threshold)

\* The cascade with CASO D (SUCCESS) tried before CASO A (FANTASMA)
diagnose_root_cause_success_first(impressions, ctr, retention, views, profile, config) ==
    LET level == impressions_level_of(impressions, config) IN
    IF CasoSuccess(ctr, retention, config)
    THEN [syndrome |-> "SUCCESS", culprit |-> "NINGUNO",
          impressions_level |-> level, action |-> "continuar"]
    ELSE IF CasoFantasma(impressions, config)
    THEN [syndrome |-> "FANTASMA", culprit |-> "TITULO",
          impressions_level |-> level, action |-> "titulo_generico"]
    ELSE IF CasoInvisible(impressions, ctr, config)
    THEN [syndrome |-> "INVISIBLE", culprit |-> "MINIATURA",
          impressions_level |-> level, action |-> "miniatura_generica"]
    ELSE IF CasoClickbait(ctr, retention, config)
    THEN [syndrome |-> "CLICKBAIT", culprit |-> "COHERENCIA",
          impressions_level |-> level, action |-> "primeros_30s"]
    ELSE [syndrome |-> "INSUFFICIENT_DATA", culprit |-> "DESCONOCIDO",
          impressions_level |-> level, action |-> "continuar_monitoreo"]

\* The result keeps syndrome, culprit and impressions_level; "action" names
\* which of the per-profile texts was produced.
diagnose_root_cause(impressions, ctr, retention, views, profile, config) ==
    LET level == impressions_level_of(impressions, config) IN
    IF CasoFantasma(impressions, config)
    THEN [syndrome |-> "FANTASMA", culprit |-> "TITULO",
          impressions_level |-> level,
          action |-> IF profile = "tech" THEN "titulo_keywords"
                     ELSE IF profile = "growth" THEN "titulo_radical"
                     ELSE "titulo_generico"]
    ELSE IF CasoInvisible(impressions, ctr, config)
    THEN [syndrome |-> "INVISIBLE", culprit |-> "MINIATURA",
          impressions_level |-> level,
          action |-> IF profile = "tech" THEN "miniatura_contraste"
                     ELSE IF profile = "growth" THEN "miniatura_expresion"
                     ELSE "miniatura_generica"]
    ELSE IF CasoClickbait(ctr, retention, config)
    THEN [syndrome |-> "CLICKBAIT", culprit |-> "COHERENCIA",
          impressions_level |-> level, action |-> "primeros_30s"]
    ELSE IF CasoSuccess(ctr, retention, config)
    THEN [syndrome |-> "SUCCESS", culprit |-> "NINGUNO",
          impressions_level |-> level, action |-> "continuar"]
    ELSE [syndrome |-> "INSUFFICIENT_DATA", culprit |-> "DESCONOCIDO",
          impressions_level |-> level, action |-> "continuar_monitoreo"]

-----------------------------------------------------------------------------
(* check_video_health *)

\* The silence-zone rule with the comparison turned around
SilenceZone_inverted(hours_online, config) ==
    hours_online > config.min_hours_before_alert * 10

\* "if hours_online < min_hours"
SilenceZone(hours_online, config) ==
    hours_online < config.min_hours_before_alert * 10

\* The archive rule with an inclusive comparison
ArchiveZone_inclusive(hours_online, config) ==
    hours_online >= config.archive_after_hours * 10

\* "if hours_online > archive_hours"
ArchiveZone(hours_online, config) ==
    hours_online > config.archive_after_hours * 10

\* The tech cascade with the CTR rules tried before the velocity rule
health_tech_ctr_first(vph, ctr, retention, config) ==
    IF vph < config.stagnant_views_velocity /\ ctr # None
       /\ ctr < config.min_ctr_threshold
    THEN [status |-> "ALERT_STAGNANT", priority |-> "MEDIUM"]
    ELSE IF ctr # None /\ ctr < config.min_ctr_threshold
            /\ vph >= config.stagnant_views_velocity
    THEN [status |-> "ALERT_LOW_CTR_SEO", priority |-> "MEDIUM"]
    ELSE IF vph >= config.healthy_views_velocity
    THEN [status |-> "HEALTHY_SEO_DRIP", priority |-> "SUCCESS"]
    ELSE IF retention # None /\ retention < config.min_retention_threshold
    THEN [status |-> "ALERT_LOW_RETENTION", priority |-> "MEDIUM"]
    ELSE [status |-> "MONITORING_SEO", priority |-> "INFO"]

\* The tech cascade (lines 301-344)
health_tech(vph, ctr, retention, config) ==
    IF vph >= config.healthy_views_velocity
    THEN [status |-> "HEALTHY_SEO_DRIP", priority |-> "SUCCESS"]
    ELSE IF vph < config.stagnant_views_velocity /\ ctr # None
            /\ ctr < config.min_ctr_threshold
    THEN [status |-> "ALERT_STAGNANT", priority |-> "MEDIUM"]
    ELSE IF ctr # None /\ ctr < config.min_ctr_threshold
            /\ vph >= config.stagnant_views_velocity
    THEN [status |-> "ALERT_LOW_CTR_SEO", priority |-> "MEDIUM"]
    ELSE IF retention # None /\ retention < config.min_retention_threshold
    THEN [status |-> "ALERT_LOW_RETENTION", priority |-> "MEDIUM"]
    ELSE [status |-> "MONITORING_SEO", priority |-> "INFO"]

\* The growth cascade with the stagnation rule downgraded to MEDIUM
health_growth_medium(vph, ctr, retention, hours_online, config) ==
    IF vph >= config.healthy_views_velocity
    THEN [status |-> "VIRAL_SUCCESS", priority |-> "SUCCESS"]
    ELSE IF ctr # None /\ ctr < config.min_ctr_threshold /\ hours_online >= 60
    THEN [status |-> "ALERT_LOW_CTR_URGENT", priority |-> "HIGH"]
    ELSE IF retention # None /\ retention < config.min_retention_threshold
            /\ ctr # None /\ ctr >= config.min_ctr_threshold
    THEN [status |-> "ALERT_CLICKBAIT_MISMATCH", priority |-> "HIGH"]
    ELSE IF vph < config.stagnant_views_velocity /\ hours_online >= 60
    THEN [status |-> "ALERT_STAGNANT_VIRAL", priority |-> "MEDIUM"]
    ELSE [status |-> "MONITORING_VIRAL", priority |-> "INFO"]

\* The growth cascade (lines 349-392); "hours_online >= 6" is 60 tenths
health_growth(vph, ctr, retention, hours_online, config) ==
    IF vph >= config.healthy_views_velocity
    THEN [status |-> "VIRAL_SUCCESS", priority |-> "SUCCESS"]
    ELSE IF ctr # None /\ ctr < config.min_ctr_threshold /\ hours_online >= 60
    THEN [status |-> "ALERT_LOW_CTR_URGENT", priority |-> "HIGH"]
    ELSE IF retention # None /\ retention < config.min_retention_threshold
            /\ ctr # None /\ ctr >= config.min_ctr_threshold
    THEN [status |-> "ALERT_CLICKBAIT_MISMATCH", priority |-> "HIGH"]
    ELSE IF vph < config.stagnant_views_velocity /\ hours_online >= 60
    THEN [status |-> "ALERT_STAGNANT_VIRAL", priority |-> "HIGH"]
    ELSE [status |-> "MONITORING_VIRAL", priority |-> "INFO"]

\* The PROFILE_UNKNOWN fallback (lines 397-404)
health_unknown(vph) ==
    IF vph >= 20 THEN [status |-> "MONITORING_OK", priority |-> "SUCCESS"]
    ELSE IF vph < 10 THEN [status |-> "ALERT_LOW_PERFORMANCE", priority |-> "MEDIUM"]
    ELSE [status |-> "MONITORING_NEUTRAL", priority |-> "INFO"]

\* metrics is the record [views, ctr, retention, vph]
check_video_health(metrics, hours_online, profile, config) ==
    IF SilenceZone(hours_online, config)
    THEN [status |-> "WAITING_INDEXING", priority |-> "INFO"]
    ELSE IF ArchiveZone(hours_online, config)
    THEN [status |-> "ARCHIVED", priority |-> "INFO"]
    ELSE IF profile = "tech"
    THEN health_tech(metrics.vph, metrics.ctr, metrics.retention, config)
    ELSE IF profile = "growth"
    THEN health_growth(metrics.vph, metrics.ctr, metrics.retention,
                       hours_online, config)
    ELSE health_unknown(metrics.vph)

-----------------------------------------------------------------------------
(* get_video_analytics *)

\* What the Analytics API hands back for one video.  "failed" stands for a
\* missing service or any exception of the first query; has_row says whether
\* response['rows'] is non-empty, and ctr, retention, impressions are what the
\* code reads from the row (None when the row is too short); traffic_rows
\* says whether the second query returned rows.
ApiSamples ==
    { [failed |-> TRUE,  has_row |-> FALSE, ctr |-> None, retention |-> None,
       impressions |-> None, traffic_rows |-> FALSE],
      [failed |-> FALSE, has_row |-> FALSE, ctr |-> None, retention |-> None,
       impressions |-> None, traffic_rows |-> TRUE],
      [failed |-> FALSE, has_row |-> TRUE, ctr |-> 30, retention |-> 45,
       impressions |-> 3000, traffic_rows |-> TRUE],
      [failed |-> FALSE, has_row |-> TRUE, ctr |-> 45, retention |-> 38,
       impressions |-> 3000, traffic_rows |-> FALSE],
      [failed |-> FALSE, has_row |-> TRUE, ctr |-> 90, retention |-> 50,
       impressions |-> 400, traffic_rows |-> TRUE] }

\* The value analytics_data of the caller: NoAnalytics is Python None, otherwise
\* the metrics dict.  top_source is "" when traffic_sources is empty or absent.
\* The second query sums row[0], the source type name, so a non-empty answer
\* raises inside the inner try and leaves traffic_sources = {} (lines 98-116).
\* Missing analytics reported as zeros instead of None
NoAnalytics_zeros ==
    [present |-> FALSE, ctr |-> 0, retention |-> 0, impressions |-> 0,
     top_source |-> ""]

NoAnalytics ==
    [present |-> FALSE, ctr |-> None, retention |-> None, impressions |-> None,
     top_source |-> ""]

get_video_analytics(api) ==
    IF api.failed THEN NoAnalytics
    ELSE IF ~api.has_row /\ ~api.traffic_rows THEN NoAnalytics  \* metrics == {}
    ELSE [present |-> TRUE,
          ctr |-> IF api.has_row THEN api.ctr ELSE None,
          retention |-> IF api.has_row THEN api.retention ELSE None,
          impressions |-> IF api.has_row THEN api.impressions ELSE None,
          top_source |-> ""]

-----------------------------------------------------------------------------
(* save_learning_data *)

ExtendedCheckpoints == {"checkpoint_7d", "checkpoint_15d", "checkpoint_30d"}

ThumbnailSources == {"BROWSE", "BROWSE_FEATURES", "RELATED_VIDEO"}

NoLabel ==
    [user_action |-> "None", reason |-> "", problem_source |-> "",
     success_pattern |-> ""]

\* The low-CTR block without the early return of the retention heuristic
low_ctr_problem_source_no_retention_skip(retention, top_source) ==
    IF top_source \in ThumbnailSources THEN "skip"
    ELSE LET ps1 == IF top_source = "YT_SEARCH" THEN "title" ELSE "unknown"
             ps2 == IF Truthy(retention) /\ retention < 30 THEN "both" ELSE ps1
         IN IF ps2 = "unknown" /\ ~Truthy(retention) THEN "skip" ELSE ps2

\* problem_source after the three heuristics of the low-CTR block (451-485);
\* "skip" stands for the early "return None"
low_ctr_problem_source(retention, top_source) ==
    IF Truthy(retention) /\ retention > 40 THEN "skip"
    ELSE IF top_source \in ThumbnailSources THEN "skip"
    ELSE LET ps1 == IF top_source = "YT_SEARCH" THEN "title" ELSE "unknown"
             ps2 == IF Truthy(retention) /\ retention < 30 THEN "both" ELSE ps1
         IN IF ps2 = "unknown" /\ ~Truthy(retention) THEN "skip" ELSE ps2

\* The classification with the CTR bands tried before the delayed-explosion
\* rules
classify_title_bands_first(ctr, vph, ctr_day3, vph_day3, checkpoint, problem_source) ==
    IF ctr # None /\ ctr >= 80
    THEN [user_action |-> "approved", reason |-> "ctr_excelente",
          problem_source |-> "none", success_pattern |-> "immediate"]
    ELSE IF ctr # None /\ ctr >= 50
    THEN [user_action |-> "approved", reason |-> "ctr_bueno",
          problem_source |-> "none", success_pattern |-> "immediate"]
    ELSE IF checkpoint \in ExtendedCheckpoints /\ Truthy(ctr_day3) /\ Truthy(ctr)
            /\ ctr * 2 >= ctr_day3 * 3
    THEN [user_action |-> "approved", reason |-> "delayed_explosion_ctr",
          problem_source |-> "none", success_pattern |-> "delayed_explosion"]
    ELSE IF checkpoint \in ExtendedCheckpoints /\ Truthy(vph_day3)
            /\ vph >= vph_day3 * 2
    THEN [user_action |-> "approved", reason |-> "delayed_explosion_vph",
          problem_source |-> "none", success_pattern |-> "delayed_explosion"]
    ELSE NoLabel

\* The classification of lines 487-546 given the problem_source found so far
classify_title(ctr, vph, ctr_day3, vph_day3, checkpoint, problem_source) ==
    IF checkpoint \in ExtendedCheckpoints /\ Truthy(ctr_day3) /\ Truthy(ctr)
       /\ ctr * 2 >= ctr_day3 * 3
    THEN [user_action |-> "approved", reason |-> "delayed_explosion_ctr",
          problem_source |-> "none", success_pattern |-> "delayed_explosion"]
    ELSE IF checkpoint \in ExtendedCheckpoints /\ Truthy(vph_day3)
            /\ vph >= vph_day3 * 2
    THEN [user_action |-> "approved", reason |-> "delayed_explosion_vph",
          problem_source |-> "none", success_pattern |-> "delayed_explosion"]
    ELSE IF ctr # None /\ ctr >= 80
    THEN [user_action |-> "approved", reason |-> "ctr_excelente",
          problem_source |-> "none", success_pattern |-> "immediate"]
    ELSE IF ctr # None /\ ctr >= 50
    THEN [user_action |-> "approved", reason |-> "ctr_bueno",
          problem_source |-> "none", success_pattern |-> "immediate"]
    ELSE IF ctr # None /\ ctr < 50 /\ problem_source = "title"
    THEN [user_action |-> "rejected", reason |-> "ctr_bajo_problema_titulo",
          problem_source |-> "title", success_pattern |-> "immediate"]
    ELSE IF ctr # None /\ ctr < 50 /\ problem_source = "both"
    THEN [user_action |-> "rejected",
          reason |-> "ctr_bajo_problema_titulo_y_miniatura",
          problem_source |-> "both", success_pattern |-> "immediate"]
    ELSE IF vph >= 100
    THEN [user_action |-> "approved", reason |-> "vph_alto",
          problem_source |-> "none", success_pattern |-> "immediate"]
    ELSE IF vph < 25
    THEN [user_action |-> "rejected", reason |-> "vph_bajo",
          problem_source |-> "title", success_pattern |-> "immediate"]
    ELSE NoLabel

\* The label save_learning_data decides on; history is the video's stored
\* metrics (video.get('metrics')), from which ctr_day3 and vph_day3 are read.
save_learning_data(history, analytics_data, vph, checkpoint) ==
    LET ctr       == analytics_data.ctr
        retention == analytics_data.retention
        has72     == "checkpoint_72h" \in DOMAIN history
        ctr_day3  == IF has72 THEN history["checkpoint_72h"].ctr ELSE None
        vph_day3  == IF has72 THEN history["checkpoint_72h"].vph ELSE None
        ps        == IF ctr # None /\ ctr < 50
                     THEN low_ctr_problem_source(retention,
                                                 analytics_data.top_source)
                     ELSE "unknown"
    IN IF ps = "skip" THEN NoLabel
       ELSE classify_title(ctr, vph, ctr_day3, vph_day3, checkpoint, ps)

-----------------------------------------------------------------------------
(* generate_new_title_variants *)

\* llm is what the provider call did: "ok" (three A:/B:/C: lines), "short"
\* (fewer than three) or "raise".  The result names which dict is returned.
generate_new_title_variants(llm) ==
    IF llm = "ok" THEN "parsed"
    ELSE IF llm = "short" THEN "template_descubre"
    ELSE "template_secreto"

-----------------------------------------------------------------------------
(* generate_ab_titles.py *)

\* What one generate_content call of the classifier hands back: its upper-
\* cased text, or "raise" when the call raises
ClassifyResponses == {"TECNICO", "VIRAL", "TECNICO O VIRAL", "NO SE", "raise"}

\* classify_video_type (lines 126-184): '"TECNICO" in classification' is
\* tested first, and every other answer than VIRAL, and any exception,
\* gives TECNICO
classify_video_type(response) ==
    IF response = "raise" THEN "TECNICO"
    ELSE IF response \in {"TECNICO", "TECNICO O VIRAL"} THEN "TECNICO"
    ELSE IF response = "VIRAL" THEN "VIRAL"
    ELSE "TECNICO"

\* generate_ab_titles (lines 187-288).  first is the classifier's answer in
\* the try block, llm what the generation call does ("ok", "short", "raise"),
\* second the classifier's answer to the call made by the except block.
\* provider_calls counts the generate_content calls made, calls_after_failure
\* those made after the generation had failed.
generate_ab_titles(first, llm, second) ==
    LET video_type == classify_video_type(first) IN
    IF llm = "ok"
    THEN [kind |-> "parsed",
          keys |-> {"variant_a", "variant_b", "variant_c", "profile", "video_type"},
          video_type |-> video_type,
          profile |-> IF video_type = "TECNICO" THEN "tech" ELSE "growth",
          provider_calls |-> 2, calls_after_failure |-> 0]
    ELSE LET fallback_type == classify_video_type(second)
             profile == IF fallback_type = "TECNICO" THEN "tech" ELSE "growth"
         IN [kind |-> IF profile = "tech" THEN "template_tech"
                      ELSE "template_growth",
             keys |-> {"variant_a", "variant_b", "variant_c", "profile", "video_type"},
             video_type |-> fallback_type,
             profile |-> profile,
             provider_calls |-> 3, calls_after_failure |-> 1]

-----------------------------------------------------------------------------
(* get_channel_profile *)

\* Text is a sequence of one-character strings, so that "kw in title" is a
\* substring test and str.lower() maps character by character.
UpperChars ==
    <<"A", "B", "C", "D", "E", "F", "G", "H", "I", "J", "K", "L", "M", "N", "O", "P", "Q", "R", "S", "T", "U", "V", "W", "X", "Y", "Z", "Á", "É", "Í", "Ó", "Ú", "Ñ">>

LowerChars ==
    <<"a", "b", "c", "d", "e", "f", "g", "h", "i", "j", "k", "l", "m", "n", "o", "p", "q", "r", "s", "t", "u", "v", "w", "x", "y", "z", "á", "é", "í", "ó", "ú", "ñ">>

LowerChar(c) ==
    IF \E i \in 1..Len(UpperChars) : UpperChars[i] = c
    THEN LowerChars[CHOOSE i \in 1..Len(UpperChars) : UpperChars[i] = c]
    ELSE c

\* str.lower()
Lower(text) == [i \in 1..Len(text) |-> LowerChar(text[i])]

\* The keyword test looking at the start of the title only
Contains_prefix(text, kw) ==
    Len(kw) <= Len(text) /\ SubSeq(text, 1, Len(kw)) = kw

\* "kw in title"
Contains(text, kw) ==
    \E i \in 1..(Len(text) - Len(kw) + 1) : SubSeq(text, i, i + Len(kw) - 1) = kw

KEYWORDS_TECH ==
    << <<"t", "u", "t", "o", "r", "i", "a", "l">>,
       <<"s", "o", "l", "u", "c", "i", "o", "n", "a", "r">>,
       <<"r", "e", "p", "a", "r", "a", "r">>,
       <<"i", "n", "s", "t", "a", "l", "a", "r">>,
       <<"c", "o", "n", "f", "i", "g", "u", "r", "a", "r">>,
       <<"w", "i", "n", "d", "o", "w", "s">>,
       <<"l", "i", "n", "u", "x">>,
       <<"a", "n", "d", "r", "o", "i", "d">>,
       <<"e", "r", "r", "o", "r">>,
       <<"p", "r", "o", "b", "l", "e", "m", "a">>,
       <<"b", "u", "g">>,
       <<"p", "c">>,
       <<"s", "o", "f", "t", "w", "a", "r", "e">>,
       <<"a", "p", "p">>,
       <<"c", "ó", "d", "i", "g", "o">>,
       <<"p", "r", "o", "g", "r", "a", "m", "a", "r">>,
       <<"h", "a", "c", "k">>,
       <<"c", "h", "a", "t", "g", "p", "t">>,
       <<"i", "a">>,
       <<"g", "e", "m", "i", "n", "i">> >>

KEYWORDS_GROWTH ==
    << <<"e", "s", "t", "o", "i", "c", "i", "s", "m", "o">>,
       <<"m", "a", "r", "c", "o", " ", "a", "u", "r", "e", "l", "i", "o">>,
       <<"s", "é", "n", "e", "c", "a">>,
       <<"d", "i", "s", "c", "i", "p", "l", "i", "n", "a">>,
       <<"h", "á", "b", "i", "t", "o", "s">>,
       <<"m", "e", "n", "t", "a", "l", "i", "d", "a", "d">>,
       <<"m", "o", "t", "i", "v", "a", "c", "i", "ó", "n">>,
       <<"p", "r", "o", "d", "u", "c", "t", "i", "v", "i", "d", "a", "d">>,
       <<"m", "a", "ñ", "a", "n", "a">>,
       <<"r", "u", "t", "i", "n", "a">>,
       <<"p", "s", "i", "c", "o", "l", "o", "g", "í", "a">>,
       <<"f", "i", "l", "o", "s", "o", "f", "í", "a">>,
       <<"s", "a", "b", "i", "d", "u", "r", "í", "a">>,
       <<"a", "u", "t", "o", "c", "o", "n", "t", "r", "o", "l">>,
       <<"e", "n", "f", "o", "q", "u", "e">>,
       <<"a", "n", "s", "i", "e", "d", "a", "d">>,
       <<"f", "r", "a", "c", "a", "s", "o">>,
       <<"é", "x", "i", "t", "o">>,
       <<"t", "r", "a", "n", "s", "f", "o", "r", "m", "a", "c", "i", "ó", "n">>,
       <<"d", "o", "p", "a", "m", "i", "n", "a">> >>

\* The mapping with one channel entered under the unknown profile
CHANNEL_PROFILES_unknown == ("UC1234567890TECH" :> "unknown")

\* The shipped channel-id mapping is empty
CHANNEL_PROFILES == [c \in {} |-> "unknown"]

\* sum(1 for kw in keywords if kw in title)
keyword_score(keywords, title) ==
    Cardinality({i \in 1..Len(keywords) : Contains(title, keywords[i])})

\* The resolution with the environment default consulted before the keyword
\* scores
get_channel_profile_default_first(video_data, channel_profiles, default_profile) ==
    IF video_data.channel_id # "" /\ video_data.channel_id \in DOMAIN channel_profiles
    THEN channel_profiles[video_data.channel_id]
    ELSE LET title        == Lower(video_data.title)
             tech_score   == keyword_score(KEYWORDS_TECH, title)
             growth_score == keyword_score(KEYWORDS_GROWTH, title)
         IN IF Lower(default_profile) = <<"g", "r", "o", "w", "t", "h">> THEN "growth"
            ELSE IF tech_score > growth_score THEN "tech"
            ELSE IF growth_score > tech_score THEN "growth"
            ELSE "tech"

\* video_data is [title, channel_id]; channel_id "" stands for a missing or
\* empty id.  default_profile is os.getenv('DEFAULT_CHANNEL_PROFILE', 'tech').
get_channel_profile(video_data, channel_profiles, default_profile) ==
    IF video_data.channel_id # "" /\ video_data.channel_id \in DOMAIN channel_profiles
    THEN channel_profiles[video_data.channel_id]
    ELSE LET title        == Lower(video_data.title)
             tech_score   == keyword_score(KEYWORDS_TECH, title)
             growth_score == keyword_score(KEYWORDS_GROWTH, title)
         IN IF tech_score > growth_score THEN "tech"
            ELSE IF growth_score > tech_score THEN "growth"
            ELSE IF Lower(default_profile) = <<"g", "r", "o", "w", "t", "h">> THEN "growth"
            ELSE "tech"

-----------------------------------------------------------------------------
(* monitor_videos: the data it works on *)

\* Bound on the number of monitor passes in one behaviour
MaxPasses == 2

\* The tracked videos.  title_original, channel_id and published_at are
\* columns of video_monitoring that the monitor only reads.
VideoIds == {"vT", "vG"}

VIDEOS ==
    [ vT |-> [title_original |-> <<"E", "r", "r", "o", "r", " ", "P", "C">>,
              channel_id |-> "", published_at |-> 0],
      vG |-> [title_original |-> <<"L", "a", " ", "D", "i", "s", "c", "i", "p", "l", "i", "n", "a">>,
              channel_id |-> "", published_at |-> 1440] ]

\* Instants (tenths of an hour) at which a pass may take datetime.now():
\* 24h and 48h of vT, 3h of vG, vG 23.5h with vT 167.5h, vG 24.3h with
\* vT 168.3h, vT 169h (vG 25h), after every window.
Times == {240, 480, 1470, 1675, 1683, 1690, 1710}

\* view_count values the videos table may hold
ViewCounts == {4800}

\* os.getenv('DEFAULT_CHANNEL_PROFILE', 'tech') with the variable unset
DEFAULT_CHANNEL_PROFILE == <<"t", "e", "c", "h">>

\* Ways one iteration's external calls can fail: the read of the videos
\* table, the update of video_monitoring, the update after the alert.
\* (A failed insert into user_preferences is caught inside
\* save_learning_data and only loses the label.)
FailPoints == {"none", "read", "update", "alert_update"}

\* What the provider call of generate_new_title_variants does
LlmOutcomes == {"ok", "raise"}

EmptyMap == [k \in {} |-> None]

\* A row of video_monitoring as the monitor leaves it
NewRow ==
    [ status |-> "monitoring", metrics |-> EmptyMap,
      notifications_sent |-> EmptyMap, last_check_at |-> None,
      monitoring_stage |-> "", profile |-> "", diagnosis_syndrome |-> "",
      diagnosis_culprit |-> "", impressions_level |-> "",
      alert_sent_at |-> None, suggested_titles |-> "",
      problem_diagnosed |-> "", long_term_watch |-> FALSE,
      completion_reason |-> "" ]

-----------------------------------------------------------------------------
(* monitor_videos: checkpoint selection (lines 770-795) *)

\* The tolerance with its two values exchanged
tolerance_swapped(target_hours) == IF target_hours < 48 THEN 20 ELSE 5

\* "tolerance = 0.5 if target_hours < 48 else 2.0", in tenths of an hour
tolerance(target_hours) == IF target_hours < 48 THEN 5 ELSE 20

\* The window test with the upper bound made strict
InWindow_exclusive(target_hours, hours_since) ==
    /\ target_hours * 10 - tolerance(target_hours) <= hours_since
    /\ hours_since < target_hours * 10 + tolerance(target_hours)

\* "if target_hours - tolerance <= hours_since <= target_hours + tolerance"
InWindow(target_hours, hours_since) ==
    /\ target_hours * 10 - tolerance(target_hours) <= hours_since
    /\ hours_since <= target_hours * 10 + tolerance(target_hours)

\* The target hour of the first window, in list order, that contains
\* hours_since; 0 when there is none (checkpoint stays None)
select_checkpoint(hours_since, evaluation_checkpoints) ==
    LET hits == {k \in 1..Len(evaluation_checkpoints) :
                    InWindow(evaluation_checkpoints[k], hours_since)}
    IN IF hits = {} THEN 0
       ELSE evaluation_checkpoints[CHOOSE k \in hits : \A j \in hits : k <= j]

\* The key named in days from one week on
checkpoint_key_days(target_hours) ==
    IF target_hours >= 168
    THEN "checkpoint_" \o ToString(target_hours \div 24) \o "d"
    ELSE "checkpoint_" \o ToString(target_hours) \o "h"

\* f"checkpoint_{target_hours}h"
checkpoint_key(target_hours) == "checkpoint_" \o ToString(target_hours) \o "h"

\* Every key the configured profiles can produce
CheckpointKeys ==
    UNION { {checkpoint_key(PROFILE_CONFIG[pr].evaluation_checkpoints[k]) :
                k \in DOMAIN PROFILE_CONFIG[pr].evaluation_checkpoints} :
            pr \in DOMAIN PROFILE_CONFIG }

-----------------------------------------------------------------------------
(* monitor_videos: one loop iteration (lines 757-1040) *)

\* problem_source of the critical alert (lines 889-903)
alert_problem_source(analytics_data, retention) ==
    IF Truthy(retention) /\ retention > 40 THEN "thumbnail"
    ELSE IF analytics_data.present /\ analytics_data.top_source # ""
    THEN IF analytics_data.top_source = "YT_SEARCH" THEN "title"
         ELSE IF analytics_data.top_source \in ThumbnailSources THEN "thumbnail"
         ELSE "unknown"
    ELSE IF Truthy(retention) /\ retention < 30 THEN "both"
    ELSE "title"

\* The 72h decision taking a ctr of 0 for a known low ctr
has_potential_zero_ctr(ctr, retention, vph) ==
    \/ Truthy(retention) /\ retention >= 50 /\ ctr # None /\ ctr < 80
    \/ vph < 20 /\ Truthy(retention) /\ retention >= 45

\* "has_potential" of the 72h decision (lines 990-1004); ctr < 8 is 80 tenths
has_potential(ctr, retention, vph) ==
    \/ Truthy(retention) /\ retention >= 50 /\ Truthy(ctr) /\ ctr < 80
    \/ vph < 20 /\ Truthy(retention) /\ retention >= 45

\* The stored history replaced by the new entry alone
merge_checkpoint_fresh(metrics, checkpoint, snapshot) == (checkpoint :> snapshot)

\* "current_metrics = json.loads(video.get('metrics', '{}') or '{}');
\*  current_metrics[checkpoint] = {...}" (lines 833-844)
merge_checkpoint(metrics, checkpoint, snapshot) == (checkpoint :> snapshot) @@ metrics

\* The notified set left as it was read
record_notification_dropped(notifications, checkpoint, t) == notifications

\* "notifications[checkpoint] = now.isoformat()" (line 847)
record_notification(notifications, checkpoint, t) == (checkpoint :> t) @@ notifications

\* Everything one iteration does for a video whose checkpoint is due.
\*   v, video   the video id and its row as read by the pass's select
\*   current    the row the store holds now (updates change named columns)
\*   t          the pass's "now"
\*   fail, views, api, smtp_ok, llm   what the external calls do
\* Result: raised ("" or the exception that leaves the loop), row (the row
\* of the store afterwards), pref (rows inserted into user_preferences),
\* done (which side effects happened) and sent (what send_email returned for
\* the report: "ok", "failed", or "" when it was not reached).
evaluate_checkpoint(v, video, current, t, profile, target_hours, fail, views, api, smtp_ok, llm) ==
    LET hours_since    == t - VIDEOS[v].published_at
        checkpoint     == checkpoint_key(target_hours)
        profile_config == get_profile_config(profile)
        vph            == IF hours_since > 0 THEN (views * 10) \div hours_since ELSE 0
        analytics_data == get_video_analytics(api)
        ctr            == analytics_data.ctr
        retention      == analytics_data.retention
        impressions    == analytics_data.impressions
        snapshot       == [timestamp |-> t, views |-> views, vph |-> vph,
                           ctr |-> ctr, retention |-> retention,
                           impressions |-> impressions,
                           hours_since |-> hours_since]
        current_metrics == merge_checkpoint(video.metrics, checkpoint, snapshot)
        notifications  == record_notification(video.notifications_sent, checkpoint, t)
        diagnosis      == diagnose_root_cause(impressions, ctr, retention, views,
                                              profile, profile_config)
        learning       == save_learning_data(video.metrics, analytics_data,
                                             vph, checkpoint)
        alert_due      == checkpoint = "checkpoint_24h" /\ ctr # None /\ ctr < 50
        problem_source == alert_problem_source(analytics_data, retention)
        with_variants  == problem_source \in {"title", "both", "unknown"}
        raised ==
            IF fail = "read" THEN "read"
            ELSE IF fail = "update" THEN "update"
            ELSE IF alert_due /\ ~with_variants THEN "KeyError"
            ELSE IF alert_due /\ fail = "alert_update" THEN "alert_update"
            ELSE ""
        written   == raised \notin {"read", "update"}
        inserted  == written /\ learning.user_action # "None"
        alerted   == written /\ alert_due /\ with_variants
        reported  == raised = ""
        row1 == [current EXCEPT
                    !.metrics = current_metrics,
                    !.notifications_sent = notifications,
                    !.last_check_at = t,
                    !.monitoring_stage = checkpoint,
                    !.profile = profile,
                    !.diagnosis_syndrome = diagnosis.syndrome,
                    !.diagnosis_culprit = diagnosis.culprit,
                    !.impressions_level = diagnosis.impressions_level]
        row2 == IF alert_due /\ raised = ""
                THEN [row1 EXCEPT
                        !.alert_sent_at = t,
                        !.suggested_titles = generate_new_title_variants(llm),
                        !.problem_diagnosed = problem_source]
                ELSE row1
        row3 == IF checkpoint = "checkpoint_72h"
                THEN IF has_potential(ctr, retention, vph)
                     THEN [row2 EXCEPT !.long_term_watch = TRUE]
                     ELSE [row2 EXCEPT !.status = "completed",
                                       !.completion_reason = "normal_72h_completion"]
                ELSE row2
        row4 == IF checkpoint = "checkpoint_30d"
                THEN [row3 EXCEPT !.status = "completed",
                                  !.completion_reason = "extended_30d_completion"]
                ELSE row3
    IN [ raised |-> raised,
         row    |-> IF ~written THEN current
                    ELSE IF raised = "" THEN row4 ELSE row1,
         pref   |-> IF inserted
                    THEN {[video_id |-> v, checkpoint |-> checkpoint,
                           user_action |-> learning.user_action,
                           reason |-> learning.reason,
                           problem_source |-> learning.problem_source,
                           success_pattern |-> learning.success_pattern]}
                    ELSE {},
         done   |-> [fetch  |-> raised # "read",
                     write  |-> written,
                     label  |-> inserted,
                     alert  |-> alerted,
                     report |-> reported],
         sent   |-> IF ~reported THEN "" ELSE IF smtp_ok THEN "ok" ELSE "failed" ]

-----------------------------------------------------------------------------
(* monitor_videos: the pass as a state machine *)

Invocations == {1, 2}

NoEffects ==
    [fetch |-> 0, write |-> 0, label |-> 0, alert |-> 0, report |-> 0]

\* overlapped is a history field: whether this invocation ever ran while the
\* other one was inside its loop
\* analytics says what get_video_analytics returned in the iteration just
\* completed: "none" (None), "dict" (the metrics dict), "" (not called).
IdleProc ==
    [pc |-> "idle", videos |-> <<>>, i |-> 1, now |-> 0, raised |-> "", sent |-> "",
     analytics |-> "", overlapped |-> FALSE]

\* .order("published_at", desc=True) over the ids in S
RECURSIVE OrderByPublishedDesc(_)
OrderByPublishedDesc(S) ==
    IF S = {} THEN <<>>
    ELSE LET v == CHOOSE x \in S :
                    \A y \in S : VIDEOS[x].published_at >= VIDEOS[y].published_at
         IN <<v>> \o OrderByPublishedDesc(S \ {v})

\* select("*").eq("status", "monitoring").order("published_at", desc=True):
\* the rows are copied when the pass starts
SelectMonitoring ==
    LET ids == OrderByPublishedDesc({v \in VideoIds : store[v].status = "monitoring"})
    IN [k \in 1..Len(ids) |-> [video_id |-> ids[k], row |-> store[ids[k]]]]

\* The iteration the invocation p is at
Current(p) == proc[p].videos[proc[p].i]

HoursSince(p) == proc[p].now - VIDEOS[Current(p).video_id].published_at

\* get_channel_profile(video_data_for_profile) for each tracked video
ProfileOf ==
    [v \in VideoIds |->
        get_channel_profile([title |-> VIDEOS[v].title_original,
                             channel_id |-> VIDEOS[v].channel_id],
                            CHANNEL_PROFILES, DEFAULT_CHANNEL_PROFILE)]

\* 0 when no checkpoint is selected
TargetOf(p) ==
    select_checkpoint(HoursSince(p),
        get_profile_config(ProfileOf[Current(p).video_id]).evaluation_checkpoints)

Bump(n, happened) == IF happened THEN n + 1 ELSE n

AddEffects(v, checkpoint, done) ==
    [effects EXCEPT ![v][checkpoint] =
        [fetch     |-> Bump(@.fetch, done.fetch),
         write     |-> Bump(@.write, done.write),
         label     |-> Bump(@.label, done.label),
         alert     |-> Bump(@.alert, done.alert),
         report    |-> Bump(@.report, done.report)]]

\* The notified check with the test dropped
AlreadyNotified_never(checkpoint, notifications) == FALSE

\* "if checkpoint in notifications" (line 800)
AlreadyNotified(checkpoint, notifications) == checkpoint \in DOMAIN notifications

\* monitor_videos() is started (lines 738-755) while no other invocation runs
StartPass(p) ==
    /\ proc[p].pc # "loop"
    /\ \A q \in Invocations : proc[q].pc # "loop"
    /\ passes < MaxPasses
    /\ \E t \in Times :
        /\ t >= now
        /\ now' = t
        /\ proc' = [proc EXCEPT ![p] = [pc |-> "loop", videos |-> SelectMonitoring,
                                        i |-> 1, now |-> t, raised |-> "",
                                        sent |-> "", analytics |-> "",
                                        overlapped |-> proc[p].overlapped]]
    /\ passes' = passes + 1
    /\ UNCHANGED <<store, prefs, effects, call>>

\* monitor_videos() is started while the other invocation is inside its loop
\* (nothing in the script prevents it: no lock, no lease on the rows).  One
\* such start is explored per behaviour.
StartOverlapping(p) ==
    /\ proc[p].pc # "loop"
    /\ ~proc[p].overlapped
    /\ \E q \in Invocations \ {p} : proc[q].pc = "loop"
    /\ passes < MaxPasses
    /\ \E t \in Times :
        /\ t >= now
        /\ now' = t
        /\ proc' = [q \in Invocations |->
                        IF q = p
                        THEN [pc |-> "loop", videos |-> SelectMonitoring,
                              i |-> 1, now |-> t, raised |-> "", sent |-> "",
                              analytics |-> "", overlapped |-> TRUE]
                        ELSE [proc[q] EXCEPT !.overlapped = TRUE]]
    /\ passes' = passes + 1
    /\ UNCHANGED <<store, prefs, effects, call>>

\* The skipped iteration leaving a trace in the row
SkipVideo_touching(p) ==
    /\ proc[p].pc = "loop"
    /\ proc[p].i <= Len(proc[p].videos)
    /\ LET target == TargetOf(p) IN
        \/ target = 0
        \/ /\ target # 0
           /\ AlreadyNotified(checkpoint_key(target), Current(p).row.notifications_sent)
    /\ proc' = [proc EXCEPT ![p].i = @ + 1, ![p].sent = "", ![p].analytics = ""]
    /\ store' = [store EXCEPT ![Current(p).video_id].last_check_at = proc[p].now]
    /\ UNCHANGED <<now, passes, prefs, effects, call>>

\* An iteration with no checkpoint selected, or with "continue" because the
\* checkpoint is in the row's notifications_sent (lines 797-802)
SkipVideo(p) ==
    /\ proc[p].pc = "loop"
    /\ proc[p].i <= Len(proc[p].videos)
    /\ LET target == TargetOf(p) IN
        \/ target = 0
        \/ /\ target # 0
           /\ AlreadyNotified(checkpoint_key(target), Current(p).row.notifications_sent)
    /\ proc' = [proc EXCEPT ![p].i = @ + 1, ![p].sent = "", ![p].analytics = ""]
    /\ UNCHANGED <<now, passes, store, prefs, effects, call>>

\* What the external calls of one iteration may do.  Failures of the store,
\* of the mail server and of the provider are explored for invocations that
\* run alone; overlapping invocations are explored with every call working.
FailPointsFor(p) == IF proc[p].overlapped THEN {"none"} ELSE FailPoints

SmtpOutcomesFor(p) == IF proc[p].overlapped THEN {TRUE} ELSE BOOLEAN

LlmOutcomesFor(p) == IF proc[p].overlapped THEN {"ok"} ELSE LlmOutcomes

\* The iteration with the row's update taken back when the report's send
\* fails
EvaluateCheckpoint_rollback(p) ==
    /\ proc[p].pc = "loop"
    /\ proc[p].i <= Len(proc[p].videos)
    /\ \E fail \in FailPointsFor(p), views \in ViewCounts,
          api \in ApiSamples, smtp_ok \in SmtpOutcomesFor(p),
          llm \in LlmOutcomesFor(p) :
        LET v      == Current(p).video_id
            target == TargetOf(p)
            out    == evaluate_checkpoint(v, Current(p).row, store[v], proc[p].now,
                                          ProfileOf[v], target, fail, views,
                                          api, smtp_ok, llm)
        IN /\ target # 0
           /\ ~AlreadyNotified(checkpoint_key(target), Current(p).row.notifications_sent)
           /\ out.raised = ""
           /\ store' = IF out.sent = "failed" THEN store
                       ELSE [store EXCEPT ![v] = out.row]
           /\ prefs' = prefs \cup out.pref
           /\ effects' = AddEffects(v, checkpoint_key(target), out.done)
           /\ proc' = [proc EXCEPT ![p].i = @ + 1, ![p].sent = out.sent,
                                    ![p].analytics =
                                        IF get_video_analytics(api).present
                                        THEN "dict" ELSE "none"]
    /\ UNCHANGED <<now, passes, call>>

\* An iteration that evaluates the due checkpoint and reaches the end of the
\* loop body (lines 804-1040)
EvaluateCheckpoint(p) ==
    /\ proc[p].pc = "loop"
    /\ proc[p].i <= Len(proc[p].videos)
    /\ \E fail \in FailPointsFor(p), views \in ViewCounts,
          api \in ApiSamples, smtp_ok \in SmtpOutcomesFor(p),
          llm \in LlmOutcomesFor(p) :
        LET v      == Current(p).video_id
            target == TargetOf(p)
            out    == evaluate_checkpoint(v, Current(p).row, store[v], proc[p].now,
                                          ProfileOf[v], target, fail, views,
                                          api, smtp_ok, llm)
        IN /\ target # 0
           /\ ~AlreadyNotified(checkpoint_key(target), Current(p).row.notifications_sent)
           /\ out.raised = ""
           /\ store' = [store EXCEPT ![v] = out.row]
           /\ prefs' = prefs \cup out.pref
           /\ effects' = AddEffects(v, checkpoint_key(target), out.done)
           /\ proc' = [proc EXCEPT ![p].i = @ + 1, ![p].sent = out.sent,
                                    ![p].analytics =
                                        IF get_video_analytics(api).present
                                        THEN "dict" ELSE "none"]
    /\ UNCHANGED <<now, passes, call>>

\* The aborted iteration storing the history without the notification
EvaluateRaises_metrics_only(p) ==
    /\ proc[p].pc = "loop"
    /\ proc[p].i <= Len(proc[p].videos)
    /\ \E fail \in FailPointsFor(p), views \in ViewCounts, api \in ApiSamples :
        LET v      == Current(p).video_id
            target == TargetOf(p)
            out    == evaluate_checkpoint(v, Current(p).row, store[v], proc[p].now,
                                          ProfileOf[v], target, fail, views,
                                          api, TRUE, "ok")
        IN /\ target # 0
           /\ ~AlreadyNotified(checkpoint_key(target), Current(p).row.notifications_sent)
           /\ out.raised # ""
           /\ store' = [store EXCEPT ![v].metrics = out.row.metrics]
           /\ prefs' = prefs \cup out.pref
           /\ effects' = AddEffects(v, checkpoint_key(target), out.done)
           /\ proc' = [proc EXCEPT ![p].pc = "aborted", ![p].raised = out.raised,
                                    ![p].sent = "", ![p].analytics = ""]
    /\ UNCHANGED <<now, passes, call>>

\* An iteration in which an exception leaves the loop body.  monitor_videos
\* has no handler around the body, so the invocation ends there.
EvaluateRaises(p) ==
    /\ proc[p].pc = "loop"
    /\ proc[p].i <= Len(proc[p].videos)
    /\ \E fail \in FailPointsFor(p), views \in ViewCounts, api \in ApiSamples :
        LET v      == Current(p).video_id
            target == TargetOf(p)
            out    == evaluate_checkpoint(v, Current(p).row, store[v], proc[p].now,
                                          ProfileOf[v], target, fail, views,
                                          api, TRUE, "ok")
        IN /\ target # 0
           /\ ~AlreadyNotified(checkpoint_key(target), Current(p).row.notifications_sent)
           /\ out.raised # ""
           /\ store' = [store EXCEPT ![v] = out.row]
           /\ prefs' = prefs \cup out.pref
           /\ effects' = AddEffects(v, checkpoint_key(target), out.done)
           /\ proc' = [proc EXCEPT ![p].pc = "aborted", ![p].raised = out.raised,
                                    ![p].sent = "", ![p].analytics = ""]
    /\ UNCHANGED <<now, passes, call>>

\* The loop is exhausted and monitor_videos returns
EndPass(p) ==
    /\ proc[p].pc = "loop"
    /\ proc[p].i > Len(proc[p].videos)
    /\ proc' = [proc EXCEPT ![p] = [IdleProc EXCEPT !.pc = "done", !.now = proc[p].now,
                                                   !.overlapped = proc[p].overlapped]]
    /\ UNCHANGED <<now, passes, store, prefs, effects, call>>

NoCall == [fn |-> "none"]

Init ==
    /\ now = 0
    /\ passes = 0
    /\ store = [v \in VideoIds |-> NewRow]
    /\ prefs = {}
    /\ proc = [p \in Invocations |-> IdleProc]
    /\ effects = [v \in VideoIds |-> [c \in CheckpointKeys |-> NoEffects]]
    /\ call = NoCall

\* One scheduled invocation at a time (external cron-style trigger)
Next ==
    \/ StartPass(1)
    \/ SkipVideo(1)
    \/ EvaluateCheckpoint(1)
    \/ EvaluateRaises(1)
    \/ EndPass(1)

Spec == Init /\ [][Next]_vars

\* The same monitor when the trigger may start a second invocation while the
\* first is still running
NextOverlap ==
    \/ StartPass(1)
    \/ StartOverlapping(2)
    \/ \E p \in Invocations :
        \/ SkipVideo(p)
        \/ EvaluateCheckpoint(p)
        \/ EvaluateRaises(p)
        \/ EndPass(p)

SpecOverlap == Init /\ [][NextOverlap]_vars

-----------------------------------------------------------------------------
(* Calls of the pure functions over grids of arguments *)

ImpressionValues == {None, 0, 400, 499, 500, 999, 1000, 1999, 2000, 4999, 5000}

CtrValues == {None, 0, 30, 34, 35, 39, 40, 90}

RetentionValues == {None, 0, 20, 34, 35, 39, 40, 50}

HoursValues ==
    {0, 29, 30, 59, 60, 100, 119, 120, 200, 240, 241, 1000, 1680, 1681, 2000}

VphValues == {0, 1, 2, 4, 5, 6, 9, 10, 19, 20}

\* A call is made when none is pending; Return discards its result.
CallDiagnose ==
    /\ call = NoCall
    /\ \E impressions \in ImpressionValues, ctr \in CtrValues,
          retention \in RetentionValues, profile \in ChannelProfile :
        call' = [fn |-> "diagnose_root_cause",
                 impressions |-> impressions, ctr |-> ctr,
                 retention |-> retention, profile |-> profile,
                 result |-> diagnose_root_cause(impressions, ctr, retention, 0,
                                profile, get_profile_config(profile))]
    /\ UNCHANGED <<now, passes, store, prefs, proc, effects>>

CallHealth ==
    /\ call = NoCall
    /\ \E hours_online \in HoursValues, vph \in VphValues, ctr \in CtrValues,
          retention \in RetentionValues, profile \in ChannelProfile :
        call' = [fn |-> "check_video_health",
                 hours_online |-> hours_online, vph |-> vph, ctr |-> ctr,
                 retention |-> retention, profile |-> profile,
                 result |-> check_video_health(
                                [vph |-> vph, ctr |-> ctr, retention |-> retention],
                                hours_online, profile, get_profile_config(profile))]
    /\ UNCHANGED <<now, passes, store, prefs, proc, effects>>

\* Largest elapsed time (tenths of an hour) of the exhaustive window scan
MaxElapsed == 1800

\* Elapsed times (tenths of an hour) at and next to the window bounds
SelectHours ==
    {0, 24, 25, 30, 35, 36, 55, 60, 65, 66, 115, 120, 125, 126, 234, 235,
     240, 245, 246, 459, 460, 465, 470, 475, 476, 480, 500, 501, 1659,
     1660, 1680, 1700, 1701}

\* Values of profile_config['evaluation_checkpoints']: the two configured
\* lists, and lists whose windows overlap, in both orders
CheckpointLists ==
    { PROFILE_CONFIG["tech"].evaluation_checkpoints,
      PROFILE_CONFIG["growth"].evaluation_checkpoints,
      <<47, 48>>, <<48, 47>>, <<>> }

\* The checkpoint search of one loop iteration (lines 773-795); key is the
\* value of "checkpoint" after the loop, "None" when nothing was selected
CallSelect ==
    /\ call = NoCall
    /\ \E hours_since \in SelectHours, checkpoints \in CheckpointLists :
        LET target == select_checkpoint(hours_since, checkpoints)
        IN call' = [fn |-> "select_checkpoint", hours_since |-> hours_since,
                    checkpoints |-> checkpoints, result |-> target,
                    key |-> IF target = 0 THEN "None" ELSE checkpoint_key(target)]
    /\ UNCHANGED <<now, passes, store, prefs, proc, effects>>

\* Titles, each with the number of KEYWORDS_TECH and KEYWORDS_GROWTH entries
\* that occur in its lower-cased text, counted by hand ("HISTORIA" holds
\* "ia", "Happy" holds "app")
TitleSamples ==
    { [title |-> <<"E", "r", "r", "o", "r", " ", "P", "C">>,
       tech_hits |-> 2, growth_hits |-> 0],
      [title |-> <<"L", "a", " ", "D", "i", "s", "c", "i", "p", "l", "i", "n", "a">>,
       tech_hits |-> 0, growth_hits |-> 1],
      [title |-> <<"R", "u", "t", "i", "n", "a", " ", "P", "C">>,
       tech_hits |-> 1, growth_hits |-> 1],
      [title |-> <<"H", "o", "l", "a">>,
       tech_hits |-> 0, growth_hits |-> 0],
      [title |-> <<"H", "I", "S", "T", "O", "R", "I", "A", " ", "S", "É", "N", "E", "C", "A">>,
       tech_hits |-> 1, growth_hits |-> 1],
      [title |-> <<"H", "a", "p", "p", "y">>,
       tech_hits |-> 1, growth_hits |-> 0] }

ChannelIds == {"", "UC1234567890TECH", "UC0987654321GROWTH"}

\* Values of CHANNEL_PROFILES: as shipped (empty), and with the two entries
\* the file carries as commented examples
ChannelMappings ==
    { CHANNEL_PROFILES,
      ("UC1234567890TECH" :> "tech") @@ ("UC0987654321GROWTH" :> "growth") }

\* Values of os.getenv('DEFAULT_CHANNEL_PROFILE', 'tech'): unset, growth in
\* two spellings, and set to the empty string
DefaultProfiles ==
    { <<"t", "e", "c", "h">>, <<"g", "r", "o", "w", "t", "h">>,
      <<"G", "r", "o", "w", "t", "h">>, <<>> }

\* Two calls with the same video_data and the same tables; the environment
\* is read by each call (line 216) and may differ between them.
CallProfile ==
    /\ call = NoCall
    /\ \E sample \in TitleSamples, channel_id \in ChannelIds,
          channel_profiles \in ChannelMappings,
          default_profile \in DefaultProfiles,
          default_again \in DefaultProfiles :
        LET video_data == [title |-> sample.title, channel_id |-> channel_id]
        IN call' = [fn |-> "get_channel_profile", sample |-> sample,
                    channel_id |-> channel_id,
                    channel_profiles |-> channel_profiles,
                    default_profile |-> default_profile,
                    default_again |-> default_again,
                    result |-> get_channel_profile(video_data, channel_profiles,
                                                   default_profile),
                    again |-> get_channel_profile(video_data, channel_profiles,
                                                  default_again)]
    /\ UNCHANGED <<now, passes, store, prefs, proc, effects>>

\* What the generation call of either title generator does
GenerationOutcomes == {"ok", "short", "raise"}

\* generate_new_title_variants makes one provider call and returns from the
\* try block or from its except block (lines 594-640)
CallNewTitleVariants ==
    /\ call = NoCall
    /\ \E llm \in GenerationOutcomes :
        call' = [fn |-> "generate_new_title_variants", llm |-> llm,
                 result |-> [kind |-> generate_new_title_variants(llm),
                             keys |-> {"variant_a", "variant_b", "variant_c"},
                             provider_calls |-> 1, calls_after_failure |-> 0]]
    /\ UNCHANGED <<now, passes, store, prefs, proc, effects>>

CallAbTitles ==
    /\ call = NoCall
    /\ \E first \in ClassifyResponses, llm \in GenerationOutcomes,
          second \in ClassifyResponses :
        call' = [fn |-> "generate_ab_titles", first |-> first, llm |-> llm,
                 second |-> second,
                 result |-> generate_ab_titles(first, llm, second)]
    /\ UNCHANGED <<now, passes, store, prefs, proc, effects>>

\* One loop iteration for a video on a fresh row, at the hour a target of its
\* checkpoint list names.  72 is not in a shipped list; the 72h branch of the
\* loop body is exercised with it.
EvaluationTargets == {24, 72}

EvaluationViews == {720, 4800}

EvaluationApiSamples ==
    {[failed |-> FALSE, has_row |-> TRUE, ctr |-> c, retention |-> r,
      impressions |-> 3000, traffic_rows |-> FALSE] :
        c \in {None, 0, 30, 79, 80}, r \in {None, 0, 44, 45, 49, 50}}

CallEvaluate ==
    /\ call = NoCall
    /\ \E v \in VideoIds, target \in EvaluationTargets, fail \in FailPoints,
          views \in EvaluationViews, api \in EvaluationApiSamples :
        LET t   == VIDEOS[v].published_at + target * 10
            out == evaluate_checkpoint(v, NewRow, NewRow, t, ProfileOf[v], target,
                                       fail, views, api, TRUE, "ok")
        IN call' = [fn |-> "evaluate_checkpoint", video_id |-> v,
                    checkpoint |-> checkpoint_key(target),
                    ctr |-> api.ctr, retention |-> api.retention,
                    vph |-> (views * 10) \div (target * 10),
                    raised |-> out.raised,
                    result |-> [status |-> out.row.status,
                                long_term_watch |-> out.row.long_term_watch,
                                completion_reason |-> out.row.completion_reason,
                                diagnosis_syndrome |-> out.row.diagnosis_syndrome,
                                alert |-> out.done.alert]]
    /\ UNCHANGED <<now, passes, store, prefs, proc, effects>>

Return ==
    /\ call # NoCall
    /\ call' = NoCall
    /\ UNCHANGED <<now, passes, store, prefs, proc, effects>>

NextFunctions ==
    \/ CallDiagnose
    \/ CallHealth
    \/ CallSelect
    \/ CallProfile
    \/ CallNewTitleVariants
    \/ CallAbTitles
    \/ CallEvaluate
    \/ Return

SpecFunctions == Init /\ [][NextFunctions]_vars

-----------------------------------------------------------------------------
(* Calls of save_learning_data on an empty user_preferences table *)

LearnCtrValues == {None, 0, 30, 40, 59, 60, 65, 80}

LearnRetentionValues == {None, 0, 29, 35, 40, 45}

TopSources == {"", "YT_SEARCH", "BROWSE", "BROWSE_FEATURES", "RELATED_VIDEO"}

LearnVphValues == {0, 10, 24, 25, 100}

LearnCheckpoints ==
    {"checkpoint_24h", "checkpoint_7d", "checkpoint_15d", "checkpoint_30d"}

\* What the stored history holds for checkpoint_72h: nothing (has72 FALSE),
\* or a snapshot whose ctr may be None and whose vph is a number
Day3Values ==
    {[has72 |-> FALSE, ctr |-> None, vph |-> None]}
    \cup {[has72 |-> TRUE, ctr |-> c, vph |-> w] :
             c \in {None, 0, 20, 40}, w \in {0, 5, 50}}

\* json.loads(video.get('metrics', '{}') or '{}')
HistoryOf(day3) ==
    IF day3.has72
    THEN ("checkpoint_72h" :> [ctr |-> day3.ctr, vph |-> day3.vph])
    ELSE EmptyMap

\* The whole function: the decision, then the insert into user_preferences
\* inside the try block.  An insert that raises is caught (lines 583-587):
\* nothing is stored and None is returned.
CallSaveLearning ==
    /\ call = NoCall
    /\ prefs = {}
    /\ \E ctr \in LearnCtrValues, retention \in LearnRetentionValues,
          top_source \in TopSources, vph \in LearnVphValues,
          checkpoint \in LearnCheckpoints, day3 \in Day3Values,
          insert_ok \in BOOLEAN :
        LET analytics_data == [present |-> TRUE, ctr |-> ctr,
                               retention |-> retention, impressions |-> None,
                               top_source |-> top_source]
            label == save_learning_data(HistoryOf(day3), analytics_data, vph,
                                        checkpoint)
            stored == label.user_action # "None" /\ insert_ok
        IN /\ call' = [fn |-> "save_learning_data", ctr |-> ctr,
                       retention |-> retention, top_source |-> top_source,
                       vph |-> vph, checkpoint |-> checkpoint, day3 |-> day3,
                       insert_ok |-> insert_ok,
                       result |-> IF stored THEN label.user_action ELSE "None"]
           /\ prefs' = IF stored
                       THEN {[video_id |-> "vT", checkpoint |-> checkpoint,
                              user_action |-> label.user_action,
                              reason |-> label.reason,
                              problem_source |-> label.problem_source,
                              success_pattern |-> label.success_pattern]}
                       ELSE prefs
    /\ UNCHANGED <<now, passes, store, proc, effects>>

NextLearning ==
    \/ CallSaveLearning
    \/ Return

SpecLearning == Init /\ [][NextLearning]_vars

-----------------------------------------------------------------------------
(* Properties *)

IsDiagnose == call.fn = "diagnose_root_cause"

IsHealth == call.fn = "check_video_health"

CallConfig == get_profile_config(call.profile)

CulpritOf ==
    [ FANTASMA |-> "TITULO", INVISIBLE |-> "MINIATURA", CLICKBAIT |-> "COHERENCIA",
      SUCCESS |-> "NINGUNO", INSUFFICIENT_DATA |-> "DESCONOCIDO" ]

\* C1: once a checkpoint name is in a video's notifications_sent, no later
\* step of any pass fetches metrics, writes the record, inserts a learning
\* label, sends an alert or sends a report for that (video, checkpoint); and
\* the record of a (video, checkpoint) pair is written at most once.
C1_AtMostOnce ==
    /\ [](\A v \in VideoIds, c \in CheckpointKeys :
            /\ effects[v][c].write <= 1
            /\ effects[v][c].report <= 1
            /\ effects[v][c].label <= 1)
    /\ [][\A v \in VideoIds, c \in CheckpointKeys :
            c \in DOMAIN store[v].notifications_sent
                => effects'[v][c] = effects[v][c]]_vars

\* A second pass, later but inside the same 24h window of vG, has run to its
\* end after the first pass evaluated and reported checkpoint_24h.
C1_Witness ==
    /\ passes = 2
    /\ proc[1].pc = "done"
    /\ proc[1].now = 1683
    /\ "checkpoint_24h" \in DOMAIN store["vG"].notifications_sent
    /\ store["vG"].notifications_sent["checkpoint_24h"] = 1675
    /\ effects["vG"]["checkpoint_24h"].report = 1

\* C2: a video whose elapsed hours exceed its profile's archive_after_hours
\* is never evaluated: no stored snapshot was taken past the archive limit.
C2_NoEvaluationPastArchive ==
    \A v \in VideoIds : \A c \in DOMAIN store[v].metrics :
        store[v].metrics[c].hours_since
            <= get_profile_config(ProfileOf[v]).archive_after_hours * 10

\* C3: once the final checkpoint of a video's profile list has been
\* evaluated, the video's status is completed.
C3_FinalCheckpointCompletes ==
    \A v \in VideoIds :
        LET cps == get_profile_config(ProfileOf[v]).evaluation_checkpoints
        IN checkpoint_key(cps[Len(cps)]) \in DOMAIN store[v].notifications_sent
              => store[v].status = "completed"

\* C4: an exception while processing one video does not stop the pass: no
\* invocation ends with videos of its list left unprocessed.
C4_PassSurvivesException ==
    \A p \in Invocations :
        proc[p].pc = "aborted" => proc[p].i >= Len(proc[p].videos)

\* C5: no failure while dispatching an alert or report email leaves the loop:
\* the alert of a thumbnail-blamed video never ends the invocation, and the
\* report of the evaluated checkpoint is still sent.
C5_EmailFailureSwallowed ==
    /\ \A p \in Invocations : proc[p].raised # "KeyError"
    /\ \A v \in VideoIds :
        LET c == "checkpoint_24h" IN
        (/\ c \in DOMAIN store[v].metrics
         /\ store[v].metrics[c].ctr # None
         /\ store[v].metrics[c].ctr < 50
         /\ store[v].metrics[c].retention > 40)
            => effects[v][c].report >= 1

\* C6: diagnose_root_cause returns one of the five syndromes with the culprit
\* that belongs to it, and a FANTASMA match (impressions a positive number
\* below impressions_low_threshold) wins over the CTR-based rules; e.g.
\* impressions=400, ctr=9.0 under the tech config gives FANTASMA.
C6_OneSyndromeInOrder ==
    IsDiagnose =>
        /\ call.result.syndrome \in DOMAIN CulpritOf
        /\ call.result.culprit = CulpritOf[call.result.syndrome]
        /\ (call.impressions > 0
            /\ call.impressions < CallConfig.impressions_low_threshold)
              => call.result.syndrome = "FANTASMA"
        /\ (call.impressions = 400 /\ call.ctr = 90 /\ call.profile = "tech")
              => call.result.syndrome = "FANTASMA"

C6_Witness ==
    /\ IsDiagnose
    /\ call.impressions = 400
    /\ call.ctr = 90
    /\ call.profile = "tech"
    /\ call.result.syndrome = "FANTASMA"
    /\ call.result.culprit = "TITULO"

\* C7: whenever impressions is known (any number, including 0) and below
\* impressions_low_threshold, the result is FANTASMA with culprit TITULO.
C7_KnownLowImpressionsFantasma ==
    (/\ IsDiagnose
     /\ call.impressions # None
     /\ call.impressions < CallConfig.impressions_low_threshold)
        => /\ call.result.syndrome = "FANTASMA"
           /\ call.result.culprit = "TITULO"

\* C8: check_video_health returns WAITING_INDEXING with priority INFO
\* whenever hours_online is below min_hours_before_alert, whatever the
\* metrics are.
C8_WaitingIndexing ==
    (IsHealth /\ call.hours_online < CallConfig.min_hours_before_alert * 10)
        => /\ call.result.status = "WAITING_INDEXING"
           /\ call.result.priority = "INFO"

\* Below the silence limit with a velocity that would count as viral and
\* with ctr unknown
C8_Witness ==
    /\ IsHealth
    /\ call.profile = "growth"
    /\ call.hours_online = 29
    /\ call.vph = 20
    /\ call.ctr = None
    /\ call.result.status = "WAITING_INDEXING"

\* C9: check_video_health returns ARCHIVED whenever hours_online is above
\* archive_after_hours, and does not return ARCHIVED at exactly
\* archive_after_hours.
C9_Archived ==
    IsHealth =>
        /\ call.hours_online > CallConfig.archive_after_hours * 10
              => call.result.status = "ARCHIVED"
        /\ call.hours_online = CallConfig.archive_after_hours * 10
              => call.result.status # "ARCHIVED"

C9_Witness ==
    /\ IsHealth
    /\ call.profile = "tech"
    /\ call.hours_online = 1681
    /\ call.vph = 20
    /\ call.result.status = "ARCHIVED"

\* C10 as stated: for growth, hours_online at least 6 and not past the
\* archive limit, vph below stagnant_views_velocity gives
\* ALERT_STAGNANT_VIRAL with priority HIGH.
C10_StagnantViralAlways ==
    (/\ IsHealth
     /\ call.profile = "growth"
     /\ call.hours_online >= 60
     /\ call.hours_online <= CallConfig.archive_after_hours * 10
     /\ call.vph < CallConfig.stagnant_views_velocity)
        => /\ call.result.status = "ALERT_STAGNANT_VIRAL"
           /\ call.result.priority = "HIGH"

\* C10 amended: in that situation the priority is HIGH, and the status is
\* ALERT_LOW_CTR_URGENT when ctr is known and below min_ctr_threshold,
\* ALERT_CLICKBAIT_MISMATCH when ctr is known and not below it while
\* retention is known and below min_retention_threshold, and
\* ALERT_STAGNANT_VIRAL otherwise.
C10_StagnantViralUnlessEarlierRule ==
    (/\ IsHealth
     /\ call.profile = "growth"
     /\ call.hours_online >= 60
     /\ call.hours_online <= CallConfig.archive_after_hours * 10
     /\ call.vph < CallConfig.stagnant_views_velocity)
        => /\ call.result.priority = "HIGH"
           /\ call.result.status =
                IF call.ctr # None /\ call.ctr < CallConfig.min_ctr_threshold
                THEN "ALERT_LOW_CTR_URGENT"
                ELSE IF /\ call.ctr # None
                        /\ call.retention # None
                        /\ call.retention < CallConfig.min_retention_threshold
                THEN "ALERT_CLICKBAIT_MISMATCH"
                ELSE "ALERT_STAGNANT_VIRAL"

\* Stagnant velocity with ctr unknown: the stagnation rule is the one reached
C10_Witness ==
    /\ IsHealth
    /\ call.profile = "growth"
    /\ call.hours_online = 100
    /\ call.vph = 5
    /\ call.ctr = None
    /\ call.result.status = "ALERT_STAGNANT_VIRAL"
    /\ call.result.priority = "HIGH"

\* C11: for the tech profile, with hours_online from min_hours_before_alert
\* up to archive_after_hours and vph at least healthy_views_velocity,
\* check_video_health returns HEALTHY_SEO_DRIP with priority SUCCESS whatever
\* ctr and retention are.
C11_HealthySeoDrip ==
    (/\ IsHealth
     /\ call.profile = "tech"
     /\ call.hours_online >= CallConfig.min_hours_before_alert * 10
     /\ call.hours_online <= CallConfig.archive_after_hours * 10
     /\ call.vph >= CallConfig.healthy_views_velocity)
        => /\ call.result.status = "HEALTHY_SEO_DRIP"
           /\ call.result.priority = "SUCCESS"

\* 20h online with vph 6, while ctr and retention are both known and below
\* their thresholds
C11_Witness ==
    /\ IsHealth
    /\ call.profile = "tech"
    /\ call.hours_online = 200
    /\ call.vph = 6
    /\ call.ctr = 30
    /\ call.retention = 20
    /\ call.result.status = "HEALTHY_SEO_DRIP"
    /\ call.result.priority = "SUCCESS"

\* The priority check_video_health returns for the metrics recorded at
\* checkpoint c of video v
PriorityOf(v, c) ==
    check_video_health(store[v].metrics[c], store[v].metrics[c].hours_since,
                       ProfileOf[v], get_profile_config(ProfileOf[v])).priority

\* The evaluated (video, checkpoint) pairs
Evaluations ==
    {e \in VideoIds \X CheckpointKeys : e[2] \in DOMAIN store[e[1]].metrics}

\* C12: whether an evaluation sends an alert email is determined by the
\* priority check_video_health returns for its metrics: two evaluations with
\* the same priority make the same send/no-send decision.
C12_PriorityDecidesAlert ==
    \A e1 \in Evaluations, e2 \in Evaluations :
        PriorityOf(e1[1], e1[2]) = PriorityOf(e2[1], e2[2])
            => (effects[e1[1]][e1[2]].alert >= 1
                    <=> effects[e2[1]][e2[2]].alert >= 1)

IsLearning == call.fn = "save_learning_data"

\* C13: a call of save_learning_data with ctr known and below 5.0 and either
\* retention above 40 or a top traffic source among BROWSE, BROWSE_FEATURES,
\* RELATED_VIDEO returns no label and inserts no row into user_preferences,
\* whatever vph, checkpoint and the stored history are.
C13_ThumbnailBlamedSkip ==
    (/\ IsLearning
     /\ call.ctr # None
     /\ call.ctr < 50
     /\ (call.retention > 40 \/ call.top_source \in ThumbnailSources))
        => /\ call.result = "None"
           /\ prefs = {}

\* ctr=3.0 with retention=45 at checkpoint_7d, where ctr has grown 1.5 times
\* since day 3 and the insert would succeed: still no label
C13_Witness ==
    /\ IsLearning
    /\ call.ctr = 30
    /\ call.retention = 45
    /\ call.top_source = ""
    /\ call.checkpoint = "checkpoint_7d"
    /\ call.day3.ctr = 20
    /\ call.insert_ok
    /\ call.result = "None"
    /\ prefs = {}

\* The growth conditions of the delayed-explosion rule as the claim words them
CtrGrown == call.ctr # None /\ call.day3.ctr # None /\ call.ctr * 2 >= call.day3.ctr * 3

VphGrown == call.day3.vph # None /\ call.vph >= call.day3.vph * 2

DelayedExplosionRecorded ==
    /\ call.result = "approved"
    /\ \E row \in prefs :
        /\ row.user_action = "approved"
        /\ row.reason \in {"delayed_explosion_ctr", "delayed_explosion_vph"}
        /\ row.success_pattern = "delayed_explosion"
    /\ Cardinality(prefs) = 1

\* C14 as stated: at an extended checkpoint, ctr at least 1.5 times the ctr
\* stored for checkpoint_72h, or vph at least 2 times the stored vph, gives
\* the label approved with a delayed_explosion reason (the insert working).
C14_DelayedExplosionAlways ==
    (/\ IsLearning
     /\ call.insert_ok
     /\ call.checkpoint \in ExtendedCheckpoints
     /\ call.day3.has72
     /\ (CtrGrown \/ VphGrown))
        => DelayedExplosionRecorded

\* The early returns of the low-CTR block, from the call's arguments
SkippedAsLowCtr ==
    /\ call.ctr # None
    /\ call.ctr < 50
    /\ \/ call.retention > 40
       \/ call.top_source \in ThumbnailSources
       \/ call.top_source # "YT_SEARCH" /\ call.retention \in {None, 0}

\* C14 amended: the override applies when the call is not skipped by the
\* low-CTR block and the growth is measured from a non-zero stored value
\* (ctr and ctr_day3 both non-zero, or vph_day3 non-zero); a skipped call
\* records nothing.
C14_DelayedExplosionUnlessSkipped ==
    (/\ IsLearning
     /\ call.checkpoint \in ExtendedCheckpoints
     /\ call.day3.has72
     /\ \/ CtrGrown /\ call.ctr > 0 /\ call.day3.ctr > 0
        \/ VphGrown /\ call.day3.vph > 0)
        => /\ (~SkippedAsLowCtr /\ call.insert_ok) => DelayedExplosionRecorded
           /\ (SkippedAsLowCtr \/ ~call.insert_ok)
                => (call.result = "None" /\ prefs = {})

\* checkpoint_7d with ctr_day3=4.0 and ctr=6.5
C14_Witness ==
    /\ IsLearning
    /\ call.checkpoint = "checkpoint_7d"
    /\ call.day3.ctr = 40
    /\ call.ctr = 65
    /\ call.insert_ok
    /\ call.result = "approved"
    /\ \E row \in prefs : row.reason = "delayed_explosion_ctr"

\* C15: with one invocation at a time, no step removes or rewrites an entry
\* of a video's stored metrics history; a step that changes the history adds
\* exactly one entry, that of the checkpoint it evaluates.
C15_HistoryPreserved ==
    [][\A v \in VideoIds :
        /\ \A c \in DOMAIN store[v].metrics :
            /\ c \in DOMAIN store'[v].metrics
            /\ store'[v].metrics[c] = store[v].metrics[c]
        /\ store'[v].metrics # store[v].metrics
            => \E c \in CheckpointKeys \ DOMAIN store[v].metrics :
                /\ DOMAIN store'[v].metrics = DOMAIN store[v].metrics \cup {c}
                /\ effects'[v][c].write = effects[v][c].write + 1
                /\ store'[v].metrics[c].timestamp = proc[1].now]_vars

\* The tech video after its 24h and 48h checkpoints were evaluated by two
\* passes: both snapshots are in the history, the first as it was recorded.
C15_Witness ==
    /\ DOMAIN store["vT"].metrics = {"checkpoint_24h", "checkpoint_48h"}
    /\ store["vT"].metrics["checkpoint_24h"].timestamp = 240
    /\ store["vT"].metrics["checkpoint_24h"].ctr = 45
    /\ store["vT"].metrics["checkpoint_48h"].timestamp = 480
    /\ store["vT"].metrics["checkpoint_48h"].ctr = 90

\* C16: a checkpoint of a video is evaluated and reported twice only when
\* two invocations overlapped; as long as invocations run one at a time no
\* (video, checkpoint) pair is written or reported more than once.
C16_TwiceOnlyWhenOverlapping ==
    \A v \in VideoIds, c \in CheckpointKeys :
        (effects[v][c].write >= 2 \/ effects[v][c].report >= 2)
            => \A p \in Invocations : proc[p].overlapped

\* Both invocations read the growth video's row before either wrote it, and
\* both evaluated and reported checkpoint_24h inside the same window.
C16_Witness ==
    /\ effects["vG"]["checkpoint_24h"].write = 2
    /\ effects["vG"]["checkpoint_24h"].report = 2
    /\ proc[1].overlapped /\ proc[2].overlapped
    /\ proc[1].now = 1675
    /\ proc[2].now = 1683
    /\ store["vG"].notifications_sent["checkpoint_24h"] \in {1675, 1683}

IsSelect == call.fn = "select_checkpoint"

\* The claim's window: T - tol <= elapsed <= T + tol, tol 0.5 below 48h and
\* 2 from 48h on (in tenths of an hour)
WindowHolds(T, elapsed) ==
    LET tol == IF T < 48 THEN 5 ELSE 20
    IN T * 10 - tol <= elapsed /\ elapsed <= T * 10 + tol

\* C17: the scheduler selects checkpoint_<T>h exactly when T is the first
\* target, in list order, whose window contains the elapsed time; when no
\* window contains it, nothing is selected.
C17_FirstWindowInListOrder ==
    IsSelect =>
        LET cps  == call.checkpoints
            hits == {k \in DOMAIN cps : WindowHolds(cps[k], call.hours_since)}
        IN /\ hits = {} <=> call.key = "None"
           /\ \A k \in hits :
                (\A j \in hits : k <= j)
                    => /\ call.result = cps[k]
                       /\ call.key = "checkpoint_" \o ToString(cps[k]) \o "h"

\* 47.0h against the list <<48, 47>>: both windows contain it and the first
\* in list order, 48, is taken
C17_Witness ==
    /\ IsSelect
    /\ call.checkpoints = <<48, 47>>
    /\ call.hours_since = 470
    /\ call.result = 48
    /\ call.key = "checkpoint_48h"

IsProfile == call.fn = "get_channel_profile"

Mapped == call.channel_id # "" /\ call.channel_id \in DOMAIN call.channel_profiles

\* The default counts as growth when its lower-cased text is "growth"
IsGrowthDefault(d) ==
    d \in { <<"g", "r", "o", "w", "t", "h">>, <<"G", "r", "o", "w", "t", "h">> }

\* C18: a channel id present in the mapping returns the mapped profile
\* whatever the title is; otherwise the profile with strictly more keyword
\* matches in the lower-cased title wins; on a tie or zero matches the result
\* is growth only if the configured default is growth, and tech otherwise.
C18_ResolutionOrder ==
    IsProfile =>
        call.result =
            IF Mapped THEN call.channel_profiles[call.channel_id]
            ELSE IF call.sample.tech_hits > call.sample.growth_hits THEN "tech"
            ELSE IF call.sample.growth_hits > call.sample.tech_hits THEN "growth"
            ELSE IF IsGrowthDefault(call.default_profile) THEN "growth"
            ELSE "tech"

\* A growth-keyword title under a channel id mapped to tech
C18_Witness ==
    /\ IsProfile
    /\ call.sample.growth_hits = 1
    /\ call.sample.tech_hits = 0
    /\ call.channel_id = "UC1234567890TECH"
    /\ Mapped
    /\ call.result = "tech"

\* C19 as stated: two calls with the same title and channel id against the
\* same tables return the same profile; nothing else influences the result.
C19_SameInputsSameProfile ==
    IsProfile => call.result = call.again

\* C19 amended: the result is a function of title, channel id, the tables and
\* the value of DEFAULT_CHANNEL_PROFILE; the latter matters only for an
\* unmapped channel whose title scores the same on both keyword lists.
C19_SameInputsAndDefaultSameProfile ==
    IsProfile =>
        /\ (IsGrowthDefault(call.default_profile)
                <=> IsGrowthDefault(call.default_again))
              => call.result = call.again
        /\ (Mapped \/ call.sample.tech_hits # call.sample.growth_hits)
              => call.result = call.again

\* A decisive title resolved twice under different defaults
C19_Witness ==
    /\ IsProfile
    /\ ~Mapped
    /\ call.sample.tech_hits = 2
    /\ call.default_profile = <<"g", "r", "o", "w", "t", "h">>
    /\ call.default_again = <<"t", "e", "c", "h">>
    /\ call.result = "tech"
    /\ call.again = "tech"

IsTitles == call.fn \in {"generate_new_title_variants", "generate_ab_titles"}

\* C20: in both title generators, when the provider's answer lacks one of the
\* A:/B:/C: lines or the call raises, the result is a canned template holding
\* variant_a, variant_b and variant_c, produced with no further call to the
\* provider; when all three lines are present the parsed variants are
\* returned.
C20_TemplateWithoutFurtherCall ==
    IsTitles =>
        /\ {"variant_a", "variant_b", "variant_c"} \subseteq call.result.keys
        /\ call.llm = "ok" => call.result.kind = "parsed"
        /\ call.llm # "ok"
              => /\ call.result.kind # "parsed"
                 /\ call.result.calls_after_failure = 0

\* The targets of video v's profile whose window contains the elapsed time
WindowsAt(v, elapsed) ==
    LET cps == get_profile_config(ProfileOf[v]).evaluation_checkpoints
    IN {cps[k] : k \in {j \in DOMAIN cps : WindowHolds(cps[j], elapsed)}}

\* The video the running invocation is at, and its elapsed time
AtVideo(v) ==
    /\ proc[1].pc = "loop"
    /\ proc[1].i <= Len(proc[1].videos)
    /\ proc[1].videos[proc[1].i].video_id = v

ElapsedAt(v) == proc[1].now - VIDEOS[v].published_at

\* C21: the iteration of a pass for a video leaves its stored record
\* unchanged and performs no fetch, no learning insert and no email for it
\* when no checkpoint window contains its elapsed time or every window that
\* does names a checkpoint already in its stored notified set; and no
\* iteration changes the record of another video.
C21_SkippedVideoUntouched ==
    [][\A v \in VideoIds :
        /\ (/\ AtVideo(v)
            /\ \A T \in WindowsAt(v, ElapsedAt(v)) :
                 checkpoint_key(T) \in DOMAIN store[v].notifications_sent)
              => /\ store'[v] = store[v]
                 /\ effects'[v] = effects[v]
                 /\ prefs' = prefs
        /\ ~AtVideo(v) => (store'[v] = store[v] /\ effects'[v] = effects[v])]_vars

\* A second pass inside the same windows has gone over both videos: the
\* growth video's record is as the first pass left it.
C21_Witness ==
    /\ passes = 2
    /\ proc[1].pc = "loop"
    /\ proc[1].i = 3
    /\ proc[1].now = 1683
    /\ store["vG"].last_check_at = 1675
    /\ store["vG"].notifications_sent["checkpoint_24h"] = 1675
    /\ effects["vG"]["checkpoint_24h"].fetch = 1
    /\ effects["vG"]["checkpoint_24h"].report = 1

\* The video of the iteration the invocation has just completed
JustEvaluated == proc[1].videos[proc[1].i - 1].video_id

\* C22: when get_video_analytics returns nothing for a video whose checkpoint
\* is due, the evaluation is still completed: the stored snapshot of that
\* checkpoint has ctr, retention and impressions null, the stored diagnosis
\* is INSUFFICIENT_DATA and the checkpoint is in the notified set; and once a
\* checkpoint is in the notified set no step fetches metrics for it again.
C22_FailedFetchStillEvaluated ==
    /\ [](proc[1].analytics = "none" =>
            LET v == JustEvaluated
                c == store[v].monitoring_stage
            IN /\ c \in {checkpoint_key(T) : T \in WindowsAt(v, ElapsedAt(v))}
               /\ c \in DOMAIN store[v].metrics
               /\ store[v].metrics[c].ctr = None
               /\ store[v].metrics[c].retention = None
               /\ store[v].metrics[c].impressions = None
               /\ store[v].metrics[c].timestamp = proc[1].now
               /\ store[v].diagnosis_syndrome = "INSUFFICIENT_DATA"
               /\ c \in DOMAIN store[v].notifications_sent)
    /\ [][\A v \in VideoIds, c \in CheckpointKeys :
            c \in DOMAIN store[v].notifications_sent
                => effects'[v][c].fetch = effects[v][c].fetch]_vars

\* The tech video's 24h checkpoint evaluated without analytics, the report
\* sent
C22_Witness ==
    /\ proc[1].analytics = "none"
    /\ proc[1].sent = "ok"
    /\ proc[1].now = 240
    /\ JustEvaluated = "vT"
    /\ store["vT"].metrics["checkpoint_24h"].ctr = None
    /\ store["vT"].diagnosis_syndrome = "INSUFFICIENT_DATA"
    /\ "checkpoint_24h" \in DOMAIN store["vT"].notifications_sent

\* C23: the notified set is persisted before the report email is attempted
\* and a failed send does not undo it: a checkpoint whose report was attempted
\* is in the stored notified set, also right after a send that failed, and no
\* later step sends the report for a checkpoint in the notified set.
C23_NotifiedBeforeReport ==
    /\ [](\A v \in VideoIds, c \in CheckpointKeys :
            effects[v][c].report >= 1
                => /\ c \in DOMAIN store[v].notifications_sent
                   /\ effects[v][c].write >= 1)
    /\ [](proc[1].sent = "failed" =>
            store[JustEvaluated].monitoring_stage
                \in DOMAIN store[JustEvaluated].notifications_sent)
    /\ [][\A v \in VideoIds, c \in CheckpointKeys :
            c \in DOMAIN store[v].notifications_sent
                => effects'[v][c].report = effects[v][c].report]_vars

\* The report of the growth video's 24h checkpoint has just failed to send
C23_Witness ==
    /\ proc[1].sent = "failed"
    /\ JustEvaluated = "vG"
    /\ proc[1].now = 1675
    /\ store["vG"].notifications_sent["checkpoint_24h"] = 1675
    /\ effects["vG"]["checkpoint_24h"].report = 1

IsEvaluate == call.fn = "evaluate_checkpoint"

\* C24: when the evaluated checkpoint is checkpoint_72h and the iteration
\* completes, exactly one of two outcomes follows: if (retention >= 50 and
\* ctr is known, non-zero and < 8) or (vph < 20 and retention >= 45) the video
\* is flagged long_term_watch and its status stays monitoring; otherwise its
\* status becomes completed with completion reason normal_72h_completion.
C24_ExtendOrComplete ==
    (IsEvaluate /\ call.checkpoint = "checkpoint_72h" /\ call.raised = "") =>
        LET potential ==
                \/ call.retention >= 50 /\ call.ctr # None /\ call.ctr # 0
                   /\ call.ctr < 80
                \/ call.vph < 20 /\ call.retention >= 45
        IN IF potential
           THEN /\ call.result.long_term_watch
                /\ call.result.status = "monitoring"
                /\ call.result.completion_reason = ""
           ELSE /\ ~call.result.long_term_watch
                /\ call.result.status = "completed"
                /\ call.result.completion_reason = "normal_72h_completion"

\* retention 50 with a ctr of 0 and a high velocity: no extension
C24_Witness ==
    /\ IsEvaluate
    /\ call.checkpoint = "checkpoint_72h"
    /\ call.raised = ""
    /\ call.retention = 50
    /\ call.ctr = 0
    /\ call.vph = 66
    /\ call.result.status = "completed"
    /\ call.result.completion_reason = "normal_72h_completion"

\* C25: whenever impressions, ctr and retention are all known,
\* diagnose_root_cause returns a syndrome other than INSUFFICIENT_DATA.
C25_KnownMetricsDiagnosed ==
    (/\ IsDiagnose
     /\ call.impressions # None
     /\ call.ctr # None
     /\ call.retention # None)
        => call.result.syndrome # "INSUFFICIENT_DATA"

\* The names a profile's list can give, written out as the claim words them
NamesOf(v) ==
    LET cps == get_profile_config(ProfileOf[v]).evaluation_checkpoints
    IN {"checkpoint_" \o ToString(cps[k]) \o "h" : k \in DOMAIN cps}

ExtendedNames ==
    {"checkpoint_72h", "checkpoint_7d", "checkpoint_15d", "checkpoint_30d"}

C27_HistoryKeysAreNotifiedKeys ==
    \A v \in VideoIds :
        DOMAIN store[v].metrics = DOMAIN store[v].notifications_sent

\* The tech video after two passes, each of which evaluated one checkpoint
C27_Witness ==
    /\ passes = 2
    /\ DOMAIN store["vT"].metrics = {"checkpoint_24h", "checkpoint_48h"}
    /\ DOMAIN store["vT"].notifications_sent = {"checkpoint_24h", "checkpoint_48h"}

\* C28: in one evaluation the critical low-CTR alert of checkpoint_24h and a
\* SUCCESS diagnosis exclude each other.
C28_AlertExcludesSuccess ==
    \A v \in VideoIds :
        (/\ store[v].monitoring_stage = "checkpoint_24h"
         /\ effects[v]["checkpoint_24h"].alert >= 1)
            => store[v].diagnosis_syndrome # "SUCCESS"

ConfiguredLists ==
    {PROFILE_CONFIG[pr].evaluation_checkpoints : pr \in DOMAIN PROFILE_CONFIG}

\* The positions of a list whose window, as the scheduler tests it, contains
\* the elapsed time
HitsOf(cps, elapsed) == {k \in DOMAIN cps : InWindow(cps[k], elapsed)}

\* No elapsed time up to MaxElapsed lies in two windows of a configured list
ConfiguredWindowsDisjoint ==
    \A cps \in ConfiguredLists : \A elapsed \in 0..MaxElapsed :
        Cardinality(HitsOf(cps, elapsed)) <= 1

\* C29: for each configured profile the tolerance windows of its checkpoints
\* are pairwise disjoint, so at most one window contains an elapsed time and
\* the checkpoint search finds at most one candidate, the one it selects.
C29_ConfiguredWindowsDisjoint ==
    /\ ConfiguredWindowsDisjoint
    /\ (IsSelect /\ call.checkpoints \in ConfiguredLists) =>
          LET hits == HitsOf(call.checkpoints, call.hours_since)
          IN /\ Cardinality(hits) <= 1
             /\ \A k \in hits : call.result = call.checkpoints[k]
             /\ hits = {} => call.result = 0

\* 47.0h against the tech list: only the window of 48 contains it
C29_Witness ==
    /\ IsSelect
    /\ call.checkpoints = PROFILE_CONFIG["tech"].evaluation_checkpoints
    /\ call.hours_since = 470
    /\ HitsOf(call.checkpoints, call.hours_since) = {2}
    /\ call.result = 48

KnownProfiles == {"tech", "growth"}

\* C30: with the shipped, empty channel mapping get_channel_profile returns
\* tech or growth, never unknown, whatever the title, the channel id and the
\* environment default are; so the profile a pass computes for a video, and
\* hands to diagnose_root_cause, is tech or growth.
C30_ProfileNeverUnknown ==
    /\ \A v \in VideoIds : ProfileOf[v] \in KnownProfiles
    /\ (IsProfile /\ call.channel_profiles = CHANNEL_PROFILES) =>
          /\ call.result \in KnownProfiles
          /\ call.again \in KnownProfiles

\* A channel id given, a title with no decisive keyword score and an empty
\* default: with the shipped mapping the result is tech
C30_Witness ==
    /\ IsProfile
    /\ call.channel_profiles = CHANNEL_PROFILES
    /\ call.channel_id = "UC1234567890TECH"
    /\ call.sample.tech_hits = call.sample.growth_hits
    /\ call.default_profile = <<>>
    /\ call.result = "tech"

====
